---- MODULE Spec2Model ----
(***************************************************************************)
(* SAP-1 virtual machine (src/SAP1.py): the SAP1 dataclass, its            *)
(* fetch/decode/execute step, the bounded run loop, reset and              *)
(* load_program, as a state machine over one CPU instance; the two-pass    *)
(* assembler of the same file; and the toy compiler and its interpreter    *)
(* (src/sap1_playground.py).                                               *)
(*                                                                         *)
(*   Spec      reset, load_program, step and run in any order              *)
(*   SpecWrap  one program, then step and run once round the memory        *)
(*   SpecLoad  load_program on every short list of (address, byte) pairs   *)
(*   SpecExec  one instruction on every accumulator value                  *)
(*   SpecAsm   assemble() on short programs, the result loaded and run     *)
(*   SpecToy   compile_toy() statement by statement, the text it returns   *)
(*             interpreted by run() and assembled by assemble()            *)
(*   SpecTwin  two CPUs that differ in their trace flags, driven alike     *)
(***************************************************************************)
EXTENDS Integers, Sequences, FiniteSets, TLC

VARIABLES
    cpu,    \* the SAP1 instance: one field per dataclass field
    last,     \* the last API call made on it: its arguments, outcome and pre-state
    loads,    \* number of load_program calls made so far
    resets,   \* number of reset calls made so far
    fetches,  \* number of fetch cycles made so far
    asm,      \* the last assemble() call: its lines and its outcome
    toy,      \* the compile_toy() call in progress: its locals, then its outcome
    vm,       \* the last playground run() call: its text and its outcome
    twin      \* a second SAP1 instance, given the same calls as cpu

vars == <<cpu, last, loads, resets, fetches, asm, toy, vm, twin>>

\* what the CPUs' own calls leave alone
tools == <<asm, toy, vm>>

---------------------------------------------------------------------------
(* Bounds of the exploration *)

\* load_program calls in one behaviour
MaxLoads == 2

\* reset calls in one behaviour
MaxResets == 1

\* fetch cycles in one behaviour of Spec and SpecLoad
MaxFetches == 7

\* fetch cycles in one behaviour of SpecWrap: once round the memory, and one
MaxWrapFetches == 17

\* longest (address, byte) list handed to load_program, fixed images aside
MaxPairs == 2

\* largest max_steps handed to run()
MaxRunSteps == 16

---------------------------------------------------------------------------
(* Utility helpers *)

\* u8 with the mask forgotten
u8_unmasked(x) == x

\* x & 0xFF on Python's unbounded two's-complement integers
u8(x) == x % 256

\* x & 0xF
u4(x) == x % 16

HexDigits == <<"0", "1", "2", "3", "4", "5", "6", "7",
               "8", "9", "A", "B", "C", "D", "E", "F">>

RECURSIVE HexStr(_)
\* the digits of format(x, "X") for x >= 0, most significant first
HexStr(x) ==
    IF x < 16 THEN <<HexDigits[x + 1]>>
    ELSE Append(HexStr(x \div 16), HexDigits[(x % 16) + 1])

RECURSIVE ZeroPad(_, _)
ZeroPad(s, w) == IF Len(s) >= w THEN s ELSE ZeroPad(<<"0">> \o s, w)

\* format(x, "0wX"): upper-case hex, zero-padded to at least w digits
Hex(x, w) == ZeroPad(HexStr(x), w)

---------------------------------------------------------------------------
(* CPU definition *)

Cells == 0..15

\* SAP1(): the dataclass defaults, with the two trace flags as constructed
NewSAP1(ti, tm) ==
    [ memory  |-> [i \in Cells |-> 0],
      A |-> 0, B |-> 0, OUT |-> 0, IR |-> 0, PC |-> 0, MAR |-> 0,
      halted  |-> FALSE,
      t_state |-> 0,
      trace_instructions |-> ti,
      trace_microsteps   |-> tm ]

\* reset that also clears the memory
reset_clearing_memory(c) ==
    [c EXCEPT !.A = 0, !.B = 0, !.OUT = 0, !.IR = 0,
              !.PC = 0, !.MAR = 0,
              !.halted = FALSE,
              !.t_state = 0,
              !.memory = [i \in DOMAIN c.memory |-> 0]]

reset(c) ==
    [c EXCEPT !.A = 0, !.B = 0, !.OUT = 0, !.IR = 0,
              !.PC = 0, !.MAR = 0,
              !.halted = FALSE,
              !.t_state = 0]

(* An execution context threads the CPU through the private methods of one
   call: c is the CPU, out the lines printed to stdout, idx the memory
   indices subscripted so far. *)
Ctx(c) == [c |-> c, out |-> <<>>, idx |-> {}]

\* print() that leaves a mark in register B
Print_marking(x, line) == [x EXCEPT !.out = Append(@, line), !.c.B = 1]

Print_(x, line) == [x EXCEPT !.out = Append(@, line)]

\* T0 of _fetch_cycle: MAR <- PC
fetch_T0(x) ==
    IF x.c.trace_microsteps
    THEN Print_([x EXCEPT !.c.MAR = u4(x.c.PC), !.c.t_state = 1],
                <<"T0: MAR <- PC = ", Hex(x.c.PC, 1)>>)
    ELSE [x EXCEPT !.c.MAR = u4(x.c.PC), !.c.t_state = 1]

\* fetch_T1 with the PC increment forgotten
fetch_T1_no_increment(x) ==
    [x EXCEPT !.c.IR = u8(x.c.memory[x.c.MAR]),
              !.idx = @ \cup {x.c.MAR},
              !.c.t_state = 2]

\* T1 of _fetch_cycle: IR <- M[MAR]; PC <- PC + 1
fetch_T1(x) ==
    IF x.c.trace_microsteps
    THEN Print_([x EXCEPT !.c.IR = u8(x.c.memory[x.c.MAR]),
                          !.idx = @ \cup {x.c.MAR},
                          !.c.PC = u4(x.c.PC + 1),
                          !.c.t_state = 2],
                <<"T1: IR <- M[MAR] = ", Hex(u8(x.c.memory[x.c.MAR]), 2)>>)
    ELSE [x EXCEPT !.c.IR = u8(x.c.memory[x.c.MAR]),
                   !.idx = @ \cup {x.c.MAR},
                   !.c.PC = u4(x.c.PC + 1),
                   !.c.t_state = 2]

fetch_cycle(x) == fetch_T1(fetch_T0(x))

\* (IR >> 4) & 0xF
decode_opcode(c) == (c.IR \div 16) % 16

\* IR & 0xF
decode_addr(c) == c.IR % 16

\* decode that leaves t_state where the fetch left it
decode_no_t_state(x) == x

decode(x) ==
    IF x.c.trace_microsteps
    THEN Print_([x EXCEPT !.c.t_state = 3],
                <<"T2: Decode", Hex(decode_opcode(x.c), 1),
                  Hex(decode_addr(x.c), 1)>>)
    ELSE [x EXCEPT !.c.t_state = 3]

(* Instruction implementations *)

exec_LDA(x, addr) ==
    LET x1 == [x EXCEPT !.c.MAR = u4(addr)]
        x2 == [x1 EXCEPT !.c.A = u8(x1.c.memory[x1.c.MAR]),
                         !.idx = @ \cup {x1.c.MAR}]
    IN  [x2 EXCEPT !.c.t_state = 0]

exec_ADD(x, addr) ==
    LET x1 == [x EXCEPT !.c.MAR = u4(addr)]
        x2 == [x1 EXCEPT !.c.B = u8(x1.c.memory[x1.c.MAR]),
                         !.idx = @ \cup {x1.c.MAR}]
        x3 == [x2 EXCEPT !.c.A = u8(x2.c.A + x2.c.B)]
    IN  [x3 EXCEPT !.c.t_state = 0]

\* exec_SUB with the operands swapped: A <- B - A
exec_SUB_swapped(x, addr) ==
    LET x1 == [x EXCEPT !.c.MAR = u4(addr)]
        x2 == [x1 EXCEPT !.c.B = u8(x1.c.memory[x1.c.MAR]),
                         !.idx = @ \cup {x1.c.MAR}]
        x3 == [x2 EXCEPT !.c.A = u8(x2.c.B - x2.c.A)]
    IN  [x3 EXCEPT !.c.t_state = 0]

exec_SUB(x, addr) ==
    LET x1 == [x EXCEPT !.c.MAR = u4(addr)]
        x2 == [x1 EXCEPT !.c.B = u8(x1.c.memory[x1.c.MAR]),
                         !.idx = @ \cup {x1.c.MAR}]
        x3 == [x2 EXCEPT !.c.A = u8(x2.c.A - x2.c.B)]
    IN  [x3 EXCEPT !.c.t_state = 0]

\* exec_STA that stores before it sets MAR: the cell just fetched is hit
exec_STA_stale_MAR(x, addr) ==
    LET x1 == [x EXCEPT !.c.memory[x.c.MAR] = u8(x.c.A),
                        !.idx = @ \cup {x.c.MAR}]
        x2 == [x1 EXCEPT !.c.MAR = u4(addr)]
    IN  [x2 EXCEPT !.c.t_state = 0]

exec_STA(x, addr) ==
    LET x1 == [x EXCEPT !.c.MAR = u4(addr)]
        x2 == [x1 EXCEPT !.c.memory[x1.c.MAR] = u8(x1.c.A),
                         !.idx = @ \cup {x1.c.MAR}]
    IN  [x2 EXCEPT !.c.t_state = 0]

exec_OUT(x) ==
    LET x1 == [x EXCEPT !.c.OUT = u8(x.c.A)]
    IN  [x1 EXCEPT !.c.t_state = 0]

exec_HLT(x) ==
    LET x1 == [x EXCEPT !.c.halted = TRUE]
    IN  [x1 EXCEPT !.c.t_state = 0]

\* the f-string step() returns when trace_instructions is set
TraceLine(c, trace_msg) ==
    [ PC |-> Hex(c.PC, 1), IR |-> Hex(c.IR, 2), A |-> Hex(c.A, 2),
      B |-> Hex(c.B, 2), OUT |-> Hex(c.OUT, 2), msg |-> trace_msg ]

(* The outcome of a call is the context after it, with
     raised     whether the call raised ValueError("Unknown opcode ..."),
     err        the opcode and IR digits the error message carries,
     ret        the returned value: <<>> for None or [], else the trace lines,
     fetched    the IR bytes of the instructions the call fetched, in order,
     stepcalls  the number of step() calls made. *)
Outcome(x, raised, err, ret, fetched, stepcalls) ==
    [ c |-> x.c, out |-> x.out, idx |-> x.idx,
      raised |-> raised, err |-> err, ret |-> ret, fetched |-> fetched,
      stepcalls |-> stepcalls ]

\* the opcodes step() dispatches on; any other raises
KnownOpcodes == {1, 2, 3, 4, 14, 15}

\* the trace_msg step() builds before it calls the instruction
trace_msg(d) ==
    CASE decode_opcode(d.c) = 1  -> <<"LDA", Hex(decode_addr(d.c), 1)>>
      [] decode_opcode(d.c) = 2  -> <<"ADD", Hex(decode_addr(d.c), 1)>>
      [] decode_opcode(d.c) = 3  -> <<"SUB", Hex(decode_addr(d.c), 1)>>
      [] decode_opcode(d.c) = 4  -> <<"STA", Hex(decode_addr(d.c), 1)>>
      [] decode_opcode(d.c) = 14 -> <<"OUT (A=)", Hex(d.c.A, 2)>>
      [] decode_opcode(d.c) = 15 -> <<"HLT", <<>>>>

\* the if/elif chain of step() on a known opcode
dispatch(d) ==
    CASE decode_opcode(d.c) = 1  -> exec_LDA(d, decode_addr(d.c))
      [] decode_opcode(d.c) = 2  -> exec_ADD(d, decode_addr(d.c))
      [] decode_opcode(d.c) = 3  -> exec_SUB(d, decode_addr(d.c))
      [] decode_opcode(d.c) = 4  -> exec_STA(d, decode_addr(d.c))
      [] decode_opcode(d.c) = 14 -> exec_OUT(d)
      [] decode_opcode(d.c) = 15 -> exec_HLT(d)

\* the end of step(): the trace line, or None
step_return(e, msg) ==
    IF e.c.trace_instructions
    THEN Outcome(e, FALSE, <<>>, <<TraceLine(e.c, msg)>>, <<e.c.IR>>, 1)
    ELSE Outcome(e, FALSE, <<>>, <<>>, <<e.c.IR>>, 1)

\* step_execute that lets an unknown opcode pass as a no-op
step_execute_lenient(d) ==
    IF decode_opcode(d.c) \in KnownOpcodes
    THEN step_return(dispatch(d), trace_msg(d))
    ELSE Outcome(d, FALSE, <<>>, <<>>, <<d.c.IR>>, 1)

\* step() after fetch and decode: execute, or raise on an unknown opcode
step_execute(d) ==
    IF decode_opcode(d.c) \in KnownOpcodes
    THEN step_return(dispatch(d), trace_msg(d))
    ELSE Outcome(d, TRUE,
                 <<Hex(decode_opcode(d.c), 1), Hex(d.c.IR, 2)>>, <<>>,
                 <<d.c.IR>>, 1)

\* step() past its halted check: fetch, decode, execute
step_body(x) == step_execute(decode(fetch_cycle(x)))

\* step() without its halted check
step_when_halted(x) == step_body(x)

step(x) ==
    IF x.c.halted
    THEN Outcome(x, FALSE, <<>>, <<>>, <<>>, 1)
    ELSE step_body(x)

(* the body of run()'s while loop after its step() call, s being that
   call's outcome and o the loop before it (o.stepcalls the counter, o.ret
   the list built so far, o.fetched the IR bytes fetched): a raising
   step() ends run() at once and the list is lost; otherwise the line is
   appended and the loop goes on *)
run_body(s, o) ==
    IF s.raised
    THEN Outcome(s, TRUE, s.err, <<>>, o.fetched \o s.fetched,
                 o.stepcalls + 1)
    ELSE Outcome(s, FALSE, <<>>,
                 IF s.ret # <<>> THEN o.ret \o s.ret ELSE o.ret,
                 o.fetched \o s.fetched, o.stepcalls + 1)

\* one pass of the loop: step() is called and its outcome handled
run_pass(o) == run_body(step([c |-> o.c, out |-> o.out, idx |-> o.idx]), o)

RECURSIVE run_passes(_, _, _)

(* at most n further passes of the loop from o, while no step() raised,
   the CPU is not halted and the counter is below max_steps: the first
   half of the passes and then the rest, so that 1000 passes nest ten deep *)
run_passes(o, n, max_steps) ==
    IF n <= 0 \/ o.raised \/ o.c.halted \/ o.stepcalls >= max_steps THEN o
    ELSE IF n = 1 THEN run_pass(o)
    ELSE run_passes(run_passes(o, n \div 2, max_steps),
                    n - (n \div 2), max_steps)

\* run()'s loop with the bound off by one: steps <= max_steps
run_loop_off_by_one(x, steps, max_steps, trace, fetched) ==
    run_passes(Outcome(x, FALSE, <<>>, trace, fetched, steps),
               max_steps + 1 - steps, max_steps + 1)

(* the while loop of run(): x the context, steps the loop counter, trace
   the list built so far, fetched the IR bytes fetched so far *)
run_loop(x, steps, max_steps, trace, fetched) ==
    run_passes(Outcome(x, FALSE, <<>>, trace, fetched, steps),
               max_steps - steps, max_steps)

run(x, max_steps) == run_loop(x, 0, max_steps, <<>>, <<>>)

RECURSIVE load_program_first_wins(_, _)
\* load_program walking the list backwards: the first pair for a cell wins
load_program_first_wins(c, bytes_at_addresses) ==
    IF bytes_at_addresses = <<>>
    THEN c
    ELSE LET p == Head(bytes_at_addresses)
             r == load_program_first_wins(c, Tail(bytes_at_addresses))
         IN  [r EXCEPT !.memory[u4(p[1])] = u8(p[2])]

RECURSIVE load_program(_, _)
\* for addr, byte in bytes_at_addresses: memory[u4(addr)] = u8(byte)
load_program(c, bytes_at_addresses) ==
    IF bytes_at_addresses = <<>>
    THEN c
    ELSE LET p == Head(bytes_at_addresses)
         IN  load_program([c EXCEPT !.memory[u4(p[1])] = u8(p[2])],
                          Tail(bytes_at_addresses))

---------------------------------------------------------------------------
(* Inputs *)

\* addresses handed to load_program: in range, negative, and 16 or more
AddrInputs == {0, -1, 16}

\* bytes handed to load_program: 0x5F (no such opcode), 0x1F0 (HLT after
\* masking), -225 (0x1F, LDA 15, after masking)
ByteInputs == {95, 496, -225}

PairInputs == AddrInputs \X ByteInputs

RECURSIVE SeqsUpTo(_, _)
SeqsUpTo(S, n) ==
    IF n = 0 THEN {<<>>}
    ELSE LET shorter == SeqsUpTo(S, n - 1)
         IN  shorter \cup {Append(s, e) : s \in {t \in shorter : Len(t) = n - 1}, e \in S}

\* a program image laid out from address 0, as load_program takes it
Image(bytes) == [i \in 1..Len(bytes) |-> <<i - 1, bytes[i]>>]

\* LDA 6 / ADD 7 / STA 8 / LDA 8 / OUT / HLT / 5 / 7 / 0
DemoImage == Image(<<22, 39, 72, 24, 224, 240, 5, 7, 0>>)

\* LDA 6 / ADD 7 / OUT / SUB 8 / STA 9 / 0x5F / 250 / 10 / 9, handed over
\* with every address 16 too high and every byte 256 too high
WrapImage ==
    [i \in 1..9 |->
        <<i + 15, <<22, 39, 224, 56, 73, 95, 250, 10, 9>>[i] + 256>>]

\* sixteen instructions, none of them HLT:
\* LDA 2 / ADD 2 / OUT 0 / STA 2 / OUT 5 / SUB 1 / LDA 15 / ADD 0 /
\* OUT 15 / SUB 3 / LDA 4 / ADD 14 / STA 2 / OUT 1 / SUB 6 / LDA 9
FullImage == Image(<<18, 34, 224, 66, 229, 49, 31, 32,
                     239, 51, 20, 46, 66, 225, 54, 25>>)

\* the programs loaded in Spec and SpecLoad
ProgramInputs == {DemoImage, WrapImage}

\* the programs loaded in SpecWrap
WrapInputs == {DemoImage, WrapImage, FullImage}

\* every list of at most MaxPairs pairs
ListInputs == SeqsUpTo(PairInputs, MaxPairs)

RunInputs == {0, 3, MaxRunSteps}

---------------------------------------------------------------------------
(* The state machine *)

\* the assembler, the compiler, the interpreter or the second CPU, in a
\* state where no call has been made on it
Idle == [status |-> "idle"]

Call(op, arg, pre, o) ==
    [ op |-> op, arg |-> arg, pre |-> pre,
      raised |-> o.raised, err |-> o.err, ret |-> o.ret,
      fetched |-> o.fetched, stepcalls |-> o.stepcalls,
      out |-> o.out, idx |-> o.idx ]

\* reset(), load_program() and the constructor return nothing and raise nothing
Quiet(c) == Outcome(Ctx(c), FALSE, <<>>, <<>>, <<>>, 0)

\* the trace flags a CPU is constructed with
FlagInputs == BOOLEAN \X BOOLEAN

Init ==
    /\ cpu \in {NewSAP1(f[1], f[2]) : f \in FlagInputs}
    /\ last = Call("new", <<>>, cpu, Quiet(cpu))
    /\ loads = 0
    /\ resets = 0
    /\ fetches = 0
    /\ asm = Idle
    /\ toy = Idle
    /\ vm = Idle
    /\ twin = Idle

Reset ==
    /\ resets < MaxResets
    /\ cpu' = reset(cpu)
    /\ last' = Call("reset", <<>>, cpu, Quiet(cpu'))
    /\ resets' = resets + 1
    /\ UNCHANGED <<loads, fetches, tools, twin>>

LoadFrom(inputs) ==
    /\ \E prog \in inputs :
         /\ cpu' = load_program(cpu, prog)
         /\ last' = Call("load_program", prog, cpu, Quiet(cpu'))
    /\ loads' = loads + 1
    /\ UNCHANGED <<resets, fetches, tools, twin>>

LoadProgram == loads < MaxLoads /\ LoadFrom(ProgramInputs)

\* step(), while the behaviour's fetch cycles stay within budget
StepWithin(budget) ==
    /\ LET o == step(Ctx(cpu))
       IN  /\ fetches + Len(o.fetched) <= budget
           /\ cpu' = o.c
           /\ last' = Call("step", <<>>, cpu, o)
           /\ fetches' = fetches + Len(o.fetched)
    /\ UNCHANGED <<loads, resets, tools, twin>>

\* run(max_steps), while the behaviour's fetch cycles stay within budget
RunWithin(budget) ==
    /\ \E max_steps \in RunInputs :
         LET o == run(Ctx(cpu), max_steps)
         IN  /\ fetches + Len(o.fetched) <= budget
             /\ cpu' = o.c
             /\ last' = Call("run", <<max_steps>>, cpu, o)
             /\ fetches' = fetches + Len(o.fetched)
    /\ UNCHANGED <<loads, resets, tools, twin>>

Step == StepWithin(MaxFetches)

Run == RunWithin(MaxFetches)

Next == Reset \/ LoadProgram \/ Step \/ Run

Spec == Init /\ [][Next]_vars

---------------------------------------------------------------------------
(* Once round the memory: one program is loaded into the fresh CPU, which
   then steps and runs for up to MaxWrapFetches fetch cycles *)

LoadFirst == loads = 0 /\ LoadFrom(WrapInputs)

StepWrap == StepWithin(MaxWrapFetches)

RunWrap == RunWithin(MaxWrapFetches)

NextWrap == LoadFirst \/ StepWrap \/ RunWrap

SpecWrap == Init /\ [][NextWrap]_vars

---------------------------------------------------------------------------
(* load_program on every short list of pairs: one program is loaded into
   the fresh CPU and stepped, then one list drawn from ListInputs is loaded
   over it *)

LoadList == loads = 1 /\ LoadFrom(ListInputs)

NextLoad == LoadFirst \/ Step \/ LoadList

SpecLoad == Init /\ [][NextLoad]_vars

---------------------------------------------------------------------------
(* One instruction on every accumulator value: the CPU is brought, by the
   API alone, to PC = 1 with a chosen A, a chosen instruction in cell 1 and
   a chosen byte in the cell the instruction addresses; then it steps. *)

\* fetch cycles of one behaviour of SpecExec: the LDA that sets A, and
\* the instruction under test
MaxExecFetches == 2

ExecOpcodes == {1, 2, 3, 4, 14}

\* bytes placed in the addressed cell
OperandInputs == {5, 10, 255}

\* LDA 15 in cell 0 and a in cell 15; step; then the instruction and operand
ExecSetup(a, instr, v) ==
    LET c0 == load_program(NewSAP1(TRUE, FALSE), << <<0, 31>>, <<15, a>> >>)
        c1 == step(Ctx(c0)).c
    IN  [ pre |-> c1,
          prog |-> << <<1, instr>>, <<instr % 16, v>> >> ]

InitExec ==
    /\ \E a \in 0..255, op \in ExecOpcodes, n \in Cells, v \in OperandInputs :
         LET s == ExecSetup(a, op * 16 + n, v)
         IN  /\ cpu = load_program(s.pre, s.prog)
             /\ last = Call("load_program", s.prog, s.pre, Quiet(cpu))
    /\ loads = 2
    /\ resets = 0
    /\ fetches = 1
    /\ asm = Idle
    /\ toy = Idle
    /\ vm = Idle
    /\ twin = Idle

StepExec == StepWithin(MaxExecFetches)

SpecExec == InitExec /\ [][StepExec]_vars

---------------------------------------------------------------------------
(* Properties *)

\* the CPU before the last call
Pre == last.pre

\* the byte the last call found at memory[PC], its opcode and operand
PreByte == Pre.memory[Pre.PC]
PreOpcode == PreByte \div 16
PreOperand == PreByte - 16 * PreOpcode

\* a step() that found the CPU running
RanStep == last.op = "step" /\ ~Pre.halted

\* r is v reduced modulo m
Reduced(r, v, m) == r \in 0..(m - 1) /\ \E k \in -4..4 : r = v + m * k

Registers(c) == <<c.A, c.B, c.OUT, c.IR, c.PC, c.MAR, c.t_state>>

Flags(c) == <<c.trace_instructions, c.trace_microsteps>>

(* C1: in every reachable state A, B, OUT, IR and each of the 16 memory
   cells are in 0..255, PC and MAR are in 0..15 and t_state is in 0..3. *)
C1_WidthInvariant ==
    /\ cpu.A \in 0..255
    /\ cpu.B \in 0..255
    /\ cpu.OUT \in 0..255
    /\ cpu.IR \in 0..255
    /\ DOMAIN cpu.memory = Cells
    /\ \A i \in Cells : cpu.memory[i] \in 0..255
    /\ cpu.PC \in 0..15
    /\ cpu.MAR \in 0..15
    /\ cpu.t_state \in 0..3

\* an ADD whose sum exceeds 255 has run, on a memory that load_program
\* filled from addresses above 15 and bytes above 255
C1_Witness ==
    /\ RanStep
    /\ PreOpcode = 2
    /\ Pre.A + Pre.memory[PreOperand] > 255
    /\ Pre.A = 250
    /\ cpu.A = 4

(* C2: halted goes from false to true only in a step (alone or inside
   run) whose fetched instruction has opcode 0xF, and such a step always
   sets it; once halted, step() and run() fetch nothing, return nothing
   and leave the whole CPU as it was; halted stays true across
   load_program; reset() is the only call that clears it, and it always
   does. *)
C2_HaltedMachine ==
    /\ (~Pre.halted /\ cpu.halted) =>
           /\ last.op \in {"step", "run"}
           /\ last.fetched # <<>>
           /\ last.fetched[Len(last.fetched)] \div 16 = 15
    /\ (last.fetched # <<>> /\ last.fetched[Len(last.fetched)] \div 16 = 15)
           => cpu.halted
    /\ (Pre.halted /\ last.op \in {"step", "run"}) =>
           /\ cpu = Pre
           /\ last.fetched = <<>>
           /\ last.ret = <<>>
           /\ last.out = <<>>
           /\ ~last.raised
    /\ (Pre.halted /\ last.op # "reset") => cpu.halted
    /\ last.op = "reset" => ~cpu.halted

\* a step() was called on a halted CPU that had run a program
C2_Witness ==
    /\ last.op = "step"
    /\ Pre.halted
    /\ Pre.OUT = 12

(* C3: a step() on a running CPU whose memory[PC] has a high nibble
   outside {1, 2, 3, 4, 0xE, 0xF} raises the unknown-opcode error, which
   carries the opcode and the IR byte, and leaves A, B, OUT, every
   memory cell and halted as before the call. *)
C3_UnknownOpcode ==
    (RanStep /\ PreOpcode \notin {1, 2, 3, 4, 14, 15}) =>
        /\ last.raised
        /\ last.err = <<Hex(PreOpcode, 1), Hex(PreByte, 2)>>
        /\ cpu.A = Pre.A
        /\ cpu.B = Pre.B
        /\ cpu.OUT = Pre.OUT
        /\ cpu.memory = Pre.memory
        /\ cpu.halted = Pre.halted

\* the byte 0x5F was stepped on with A, B and OUT all set by earlier
\* instructions
C3_Witness ==
    /\ RanStep
    /\ PreByte = 95
    /\ last.raised
    /\ Pre.A # 0
    /\ Pre.B # 0
    /\ Pre.OUT # 0

(* C4 as claimed: after a step() that raised the decode error the whole
   CPU state, PC, IR, MAR and t_state included, equals the state before
   the call. *)
C4_FailedStepRestoresAll ==
    (last.op = "step" /\ last.raised) => cpu = Pre

(* C4 as amended: a step() that raised the decode error leaves A, B,
   OUT, memory, halted and the trace flags as before the call, while the
   fetch and decode stay done: MAR is the old PC, IR is the byte at the
   old PC, PC is the old PC plus 1 modulo 16, and t_state is 3. *)
C4_FailedStepKeepsFetch ==
    (last.op = "step" /\ last.raised) =>
        /\ cpu.A = Pre.A
        /\ cpu.B = Pre.B
        /\ cpu.OUT = Pre.OUT
        /\ cpu.memory = Pre.memory
        /\ cpu.halted = Pre.halted
        /\ Flags(cpu) = Flags(Pre)
        /\ cpu.MAR = Pre.PC
        /\ cpu.IR = PreByte
        /\ Reduced(cpu.PC, Pre.PC + 1, 16)
        /\ cpu.t_state = 3

\* a step() raised and left PC, IR, MAR and t_state all different from
\* what they were before the call
C4_Witness ==
    /\ last.op = "step"
    /\ last.raised
    /\ Pre.PC # cpu.PC
    /\ Pre.IR # cpu.IR
    /\ Pre.MAR # cpu.MAR
    /\ Pre.t_state # cpu.t_state

(* C5: a step() on a running CPU sets IR to the byte memory[PC] held
   before the step and PC to (PC + 1) mod 16; run() moves PC by one per
   instruction fetched; load_program leaves PC alone; so PC is the number
   of fetches since construction, modulo 16, and is 0 again after 16 of
   them. *)
C5_FetchAndWrap ==
    /\ RanStep =>
           /\ cpu.IR = PreByte
           /\ Reduced(cpu.PC, Pre.PC + 1, 16)
           /\ (Pre.PC = 15 => cpu.PC = 0)
    /\ last.op = "run" => Reduced(cpu.PC, Pre.PC + Len(last.fetched), 16)
    /\ last.op \in {"load_program", "new"} => cpu.PC = Pre.PC
    /\ Reduced(cpu.PC, fetches, 16)
    /\ fetches = 16 => cpu.PC = 0

\* one run(16) on a fresh CPU whose 16 cells all held instructions made
\* sixteen step() calls, none halting or failing, and PC is 0 again
C5_Witness ==
    /\ last.op = "run"
    /\ last.stepcalls = 16
    /\ ~last.raised
    /\ ~cpu.halted
    /\ fetches = 16
    /\ Pre.PC = 0
    /\ cpu.PC = 0
    /\ \A i \in Cells : Pre.memory[i] \div 16 \in {1, 2, 3, 4, 14}

(* C6: a step executing LDA n sets A to memory[n]; ADD n sets B to
   memory[n] and A to (A_old + memory[n]) mod 256, so 250 + 10 gives 4;
   SUB n sets B to memory[n] and A to (A_old - memory[n]) mod 256, so
   3 - 5 gives 254; STA n sets memory[n] to A; OUT sets OUT to A whatever
   its operand nibble. *)
C6_ExecuteEffects ==
    RanStep =>
        /\ PreOpcode = 1 => cpu.A = Pre.memory[PreOperand]
        /\ PreOpcode = 2 =>
               /\ cpu.B = Pre.memory[PreOperand]
               /\ Reduced(cpu.A, Pre.A + Pre.memory[PreOperand], 256)
               /\ (Pre.A = 250 /\ Pre.memory[PreOperand] = 10) => cpu.A = 4
        /\ PreOpcode = 3 =>
               /\ cpu.B = Pre.memory[PreOperand]
               /\ Reduced(cpu.A, Pre.A - Pre.memory[PreOperand], 256)
               /\ (Pre.A = 3 /\ Pre.memory[PreOperand] = 5) => cpu.A = 254
        /\ PreOpcode = 4 => cpu.memory[PreOperand] = Pre.A
        /\ PreOpcode = 14 => cpu.OUT = Pre.A

\* SUB ran with A = 3 on a cell holding 5 and left 254
C6_Witness ==
    /\ RanStep
    /\ PreOpcode = 3
    /\ Pre.A = 3
    /\ Pre.memory[PreOperand] = 5
    /\ cpu.A = 254
    /\ cpu.B = 5

(* C7: a step executing STA n assigns memory[n] and leaves the other 15
   cells as they were; a step executing LDA, ADD, SUB, OUT or HLT leaves
   all 16 cells as they were; a step changes B only when it executes ADD
   or SUB, OUT only when it executes OUT, A only when it executes LDA,
   ADD or SUB; and every memory index a step subscripts is in 0..15: the
   old PC, and the operand nibble for LDA, ADD, SUB and STA. *)
C7_StepFrame ==
    RanStep =>
        /\ PreOpcode = 4 =>
               cpu.memory = [Pre.memory EXCEPT ![PreOperand] = Pre.A]
        /\ PreOpcode \in {1, 2, 3, 14, 15} => cpu.memory = Pre.memory
        /\ cpu.B # Pre.B => PreOpcode \in {2, 3}
        /\ cpu.OUT # Pre.OUT => PreOpcode = 14
        /\ cpu.A # Pre.A => PreOpcode \in {1, 2, 3}
        /\ last.idx \subseteq 0..15
        /\ last.idx = IF PreOpcode \in {1, 2, 3, 4}
                      THEN {Pre.PC, PreOperand}
                      ELSE {Pre.PC}

\* STA 8 stored a new value into cell 8, which is not the cell it was
\* fetched from
C7_Witness ==
    /\ RanStep
    /\ PreByte = 72
    /\ cpu.memory[8] # Pre.memory[8]
    /\ cpu.memory[8] = Pre.A
    /\ Pre.PC # 8

(* C8: reset() sets A, B, OUT, IR, PC, MAR and t_state to 0 and halted
   to false, and leaves the 16 memory cells and both trace flags as they
   were. *)
C8_Reset ==
    last.op = "reset" =>
        /\ Registers(cpu) = <<0, 0, 0, 0, 0, 0, 0>>
        /\ cpu.halted = FALSE
        /\ cpu.memory = Pre.memory
        /\ Flags(cpu) = Flags(Pre)

\* reset() was called on a halted CPU with registers and memory set
C8_Witness ==
    /\ last.op = "reset"
    /\ Pre.halted
    /\ Pre.A # 0 /\ Pre.B # 0 /\ Pre.OUT # 0 /\ Pre.IR # 0
    /\ Pre.PC # 0 /\ Pre.MAR # 0
    /\ Pre.memory[8] = 12
    /\ cpu.memory[8] = 12

\* the positions of the pairs of a list whose address falls on cell i
Hits(prog, i) ==
    {k \in 1..Len(prog) : \E j \in -4..4 : prog[k][1] = i + 16 * j}

Last(S) == CHOOSE k \in S : \A j \in S : j <= k

(* C9: after load_program(pairs) each cell i holds the byte, modulo 256,
   of the last pair whose address is i modulo 16, or what it held before
   if there is no such pair; the call raises nothing, whatever the
   addresses, and leaves every register, halted and the flags as they
   were. *)
C9_LoadProgram ==
    last.op = "load_program" =>
        /\ \A i \in Cells :
               IF Hits(last.arg, i) = {}
               THEN cpu.memory[i] = Pre.memory[i]
               ELSE Reduced(cpu.memory[i],
                            last.arg[Last(Hits(last.arg, i))][2], 256)
        /\ ~last.raised
        /\ Registers(cpu) = Registers(Pre)
        /\ cpu.halted = Pre.halted
        /\ Flags(cpu) = Flags(Pre)

\* a list whose two pairs fall on cell 0, one through address 16, with
\* bytes that need masking, was loaded over an instruction on a CPU whose
\* registers had been set; the second pair won
C9_Witness ==
    /\ last.op = "load_program"
    /\ last.arg = << <<0, -225>>, <<16, 496>> >>
    /\ cpu.memory[0] = 240
    /\ Pre.memory[0] = 22
    /\ Pre.A = 250
    /\ Pre.PC = 1

(* C10: run(max_steps) makes at most max_steps calls to step() and none
   on a halted CPU: every call fetches, and only the last fetch can be a
   HLT; it stops short of max_steps only by halting or by the decode
   error; when the bound is exhausted without HLT it returns normally
   with halted false; with instruction tracing on, the returned list has
   one line per executed step, in execution order, and with it off the
   list is empty. *)
C10_Run ==
    last.op = "run" =>
        /\ last.stepcalls <= last.arg[1]
        /\ last.stepcalls = Len(last.fetched)
        /\ \A k \in 1..(Len(last.fetched) - 1) : last.fetched[k] \div 16 # 15
        /\ Pre.halted => last.stepcalls = 0
        /\ (~last.raised /\ ~cpu.halted) =>
               /\ last.stepcalls = last.arg[1]
               /\ \A k \in 1..Len(last.fetched) : last.fetched[k] \div 16 # 15
        /\ (~last.raised /\ last.stepcalls < last.arg[1]) => cpu.halted
        /\ (~last.raised /\ cpu.trace_instructions) =>
               /\ Len(last.ret) = last.stepcalls
               /\ \A k \in 1..Len(last.ret) :
                      /\ last.ret[k].IR = Hex(last.fetched[k], 2)
                      /\ last.ret[k].PC = Hex((Pre.PC + k) % 16, 1)
        /\ ~cpu.trace_instructions => last.ret = <<>>

\* run(3) used up its bound on a program that has no HLT within reach and
\* returned three trace lines, the CPU still running
C10_Witness ==
    /\ last.op = "run"
    /\ last.arg = <<3>>
    /\ last.stepcalls = 3
    /\ ~last.raised
    /\ ~cpu.halted
    /\ Len(last.ret) = 3
    /\ last.ret[1].msg[1] = "LDA"
    /\ last.ret[3].msg[1] = "OUT (A=)"

---------------------------------------------------------------------------
(* Text.  A Python str is modelled as the sequence of its characters, so
   that splitting, stripping, case folding and number parsing are computed
   on the characters as the str methods compute them. *)

\* the whitespace characters that occur in the inputs
Whitespace == {" ", "\t", "\n"}

DecDigits == <<"0", "1", "2", "3", "4", "5", "6", "7", "8", "9">>

LowerCase == <<"a", "b", "c", "d", "e", "f", "g", "h", "i", "j", "k", "l", "m",
               "n", "o", "p", "q", "r", "s", "t", "u", "v", "w", "x", "y", "z">>

UpperCase == <<"A", "B", "C", "D", "E", "F", "G", "H", "I", "J", "K", "L", "M",
               "N", "O", "P", "Q", "R", "S", "T", "U", "V", "W", "X", "Y", "Z">>

Chars(s) == {s[i] : i \in 1..Len(s)}

Min(S) == CHOOSE x \in S : \A y \in S : x <= y

\* position of the first character of s that is in set C; 0 if there is none
find(s, C) ==
    IF Chars(s) \cap C = {} THEN 0 ELSE Min({i \in 1..Len(s) : s[i] \in C})

RECURSIVE lstrip(_)
lstrip(s) ==
    IF s # <<>> /\ Head(s) \in Whitespace THEN lstrip(Tail(s)) ELSE s

RECURSIVE rstrip(_)
rstrip(s) ==
    IF s # <<>> /\ s[Len(s)] \in Whitespace
    THEN rstrip(SubSeq(s, 1, Len(s) - 1))
    ELSE s

\* s.strip()
strip(s) == rstrip(lstrip(s))

\* s.split(ch, 1)[0]
split_head(s, ch) ==
    IF find(s, {ch}) = 0 THEN s ELSE SubSeq(s, 1, find(s, {ch}) - 1)

\* s.split(ch, 1)[1], for an s that contains ch
split_tail(s, ch) == SubSeq(s, find(s, {ch}) + 1, Len(s))

RECURSIVE split(_, _)
\* s.split(ch)
split(s, ch) ==
    IF find(s, {ch}) = 0 THEN <<s>>
    ELSE <<split_head(s, ch)>> \o split(split_tail(s, ch), ch)

\* the first word of a text that starts with no whitespace, and what follows
first_word(s) ==
    IF find(s, Whitespace) = 0 THEN s
    ELSE SubSeq(s, 1, find(s, Whitespace) - 1)

after_word(s) ==
    IF find(s, Whitespace) = 0 THEN <<>>
    ELSE SubSeq(s, find(s, Whitespace), Len(s))

RECURSIVE split_words(_)
\* s.split(): the words between runs of whitespace
split_words(s) ==
    IF lstrip(s) = <<>> THEN <<>>
    ELSE <<first_word(lstrip(s))>> \o split_words(after_word(lstrip(s)))

\* s.splitlines(), for texts whose only line break is "\n"
splitlines(s) ==
    IF s = <<>> THEN <<>>
    ELSE IF s[Len(s)] = "\n" THEN split(SubSeq(s, 1, Len(s) - 1), "\n")
    ELSE split(s, "\n")

RECURSIVE join(_, _)
\* sep.join(parts)
join(sep, parts) ==
    IF parts = <<>> THEN <<>>
    ELSE IF Len(parts) = 1 THEN parts[1]
    ELSE parts[1] \o sep \o join(sep, Tail(parts))

\* s.replace(a, b) for single characters a and b
replace(s, a, b) == [i \in 1..Len(s) |-> IF s[i] = a THEN b ELSE s[i]]

upper_char(ch) ==
    IF \E i \in 1..26 : LowerCase[i] = ch
    THEN UpperCase[CHOOSE i \in 1..26 : LowerCase[i] = ch]
    ELSE ch

\* s.upper()
upper(s) == [i \in 1..Len(s) |-> upper_char(s[i])]

\* s.endswith(suffix)
endswith(s, suffix) ==
    /\ Len(s) >= Len(suffix)
    /\ SubSeq(s, Len(s) - Len(suffix) + 1, Len(s)) = suffix

\* s.startswith(prefix)
startswith(s, prefix) ==
    Len(s) >= Len(prefix) /\ SubSeq(s, 1, Len(prefix)) = prefix

\* s.isdigit()
isdigit(s) == s # <<>> /\ Chars(s) \subseteq Chars(DecDigits)

\* the value of a digit character in bases up to 16
digit_value(ch) == (CHOOSE i \in 1..16 : HexDigits[i] = upper_char(ch)) - 1

\* the digit characters of a base
base_digits(base) ==
    {ch \in Chars(HexDigits) \cup Chars(LowerCase) :
        /\ upper_char(ch) \in Chars(HexDigits)
        /\ digit_value(ch) < base}

without_underscores(d) == SelectSeq(d, LAMBDA ch : ch # "_")

\* digits, with single underscores allowed between them
grouped_digits(d, base) ==
    /\ d # <<>>
    /\ Chars(d) \subseteq base_digits(base) \cup {"_"}
    /\ d[1] # "_"
    /\ d[Len(d)] # "_"
    /\ \A i \in 1..(Len(d) - 1) : ~(d[i] = "_" /\ d[i + 1] = "_")

RECURSIVE digits_value(_, _)
digits_value(d, base) ==
    IF d = <<>> THEN 0
    ELSE digits_value(SubSeq(d, 1, Len(d) - 1), base) * base
            + digit_value(d[Len(d)])

\* the result of a conversion: a value, or the failure to give one
Parsed(v) == [ok |-> TRUE, val |-> v]
Unparsed == [ok |-> FALSE, val |-> 0]

\* the digits after a base prefix; one underscore may follow the prefix
after_prefix(d) == IF d # <<>> /\ d[1] = "_" THEN Tail(d) ELSE d

parse_digits(d, base) ==
    IF grouped_digits(d, base)
    THEN Parsed(digits_value(without_underscores(d), base))
    ELSE Unparsed

has_prefix(t, letters) == Len(t) >= 2 /\ t[1] = "0" /\ t[2] \in letters

\* an unsigned literal of int(t, 0): 0x, 0o, 0b or decimal, and a decimal
\* literal other than zero has no leading zero
parse_literal(t) ==
    IF has_prefix(t, {"x", "X"}) THEN parse_digits(after_prefix(SubSeq(t, 3, Len(t))), 16)
    ELSE IF has_prefix(t, {"o", "O"}) THEN parse_digits(after_prefix(SubSeq(t, 3, Len(t))), 8)
    ELSE IF has_prefix(t, {"b", "B"}) THEN parse_digits(after_prefix(SubSeq(t, 3, Len(t))), 2)
    ELSE IF t # <<>> /\ t[1] = "0" /\ Chars(t) \subseteq {"0", "_"} THEN parse_digits(t, 10)
    ELSE IF t # <<>> /\ t[1] = "0" THEN Unparsed
    ELSE parse_digits(t, 10)

\* a literal without its sign, and the sign
unsigned_part(t) == IF t # <<>> /\ t[1] \in {"-", "+"} THEN Tail(t) ELSE t
sign_of(t) == IF t # <<>> /\ t[1] = "-" THEN -1 ELSE 1

with_sign(t, r) == [r EXCEPT !.val = sign_of(t) * @]

\* int(tok, 0): ok is FALSE where Python raises ValueError
int_base0(tok) ==
    with_sign(strip(tok), parse_literal(unsigned_part(strip(tok))))

\* int(tok): base 10, leading zeros allowed
int_base10(tok) ==
    with_sign(strip(tok), parse_digits(unsigned_part(strip(tok)), 10))

RECURSIVE dec_str(_)
\* the digits of str(n) for n >= 0
dec_str(n) ==
    IF n < 10 THEN <<DecDigits[n + 1]>>
    ELSE Append(dec_str(n \div 10), DecDigits[(n % 10) + 1])

\* str(n), as an f-string formats an int
str(n) == IF n < 0 THEN <<"-">> \o dec_str(0 - n) ELSE dec_str(n)

---------------------------------------------------------------------------
(* Assembler: assemble() of src/SAP1.py *)

\* Python's None, which is no text
None == <<"None">>

BYTE == <<".", "B", "Y", "T", "E">>
LDA == <<"L", "D", "A">>
ADD == <<"A", "D", "D">>
SUB == <<"S", "U", "B">>
STA == <<"S", "T", "A">>
OUT == <<"O", "U", "T">>
HLT == <<"H", "L", "T">>

Mnemonics == {LDA, ADD, SUB, STA, OUT, HLT}

OPCODES ==
    [m \in Mnemonics |->
        CASE m = LDA -> 1
          [] m = ADD -> 2
          [] m = SUB -> 3
          [] m = STA -> 4
          [] m = OUT -> 14
          [] m = HLT -> 15]

\* an exception: its class and the two parts of its message
Error(class, said, about) == [class |-> class, said |-> said, about |-> about]

NoError == Error("none", "", <<>>)

AsmError(head) == Error("AsmError", "Unknown directive or mnemonic: ", head)

\* what int(tok, 0) raises on a text that is no literal
ValueError(tok) ==
    Error("ValueError", "invalid literal for int() with base 0: ", tok)

\* what parts[0] and parts[1] raise on a line with too few words
IndexError == Error("IndexError", "list index out of range", <<>>)

\* what an assignment to a list raises on an index outside the list
IndexErrorOnStore ==
    Error("IndexError", "list assignment index out of range", <<>>)

\* the first loop: comments cut off, blank lines dropped
clean(raw) == strip(split_head(raw, ";"))

cleaned_lines(lines) ==
    SelectSeq([i \in 1..Len(lines) |-> clean(lines[i])], LAMBDA l : l # <<>>)

\* an empty dict, and d[key] = value
EmptyDict == [k \in {} |-> 0]

dict_set(d, key, value) ==
    [k \in DOMAIN d \cup {key} |-> IF k = key THEN value ELSE d[k]]

\* the locals of pass 1, and the exception that ended it
Pass1(labels, pc, items, err) ==
    [labels |-> labels, pc |-> pc, items |-> items, err |-> err]

pass1_item(st, mnemonic, opnd) ==
    Pass1(st.labels, st.pc + 1, Append(st.items, <<mnemonic, opnd>>), NoError)

pass1_raise(st, err) == Pass1(st.labels, st.pc, st.items, err)

\* pass1_head that skips a line it does not know
pass1_head_permissive(st, parts, head) ==
    IF head = BYTE \/ head \in DOMAIN OPCODES
    THEN pass1_item(st, head, IF Len(parts) > 1 THEN parts[2] ELSE None)
    ELSE st

\* a directive, a mnemonic or neither
pass1_head(st, parts, head) ==
    IF head = BYTE
    THEN IF Len(parts) > 1
         THEN pass1_item(st, BYTE, parts[2])
         ELSE pass1_raise(st, IndexError)
    ELSE IF head \in DOMAIN OPCODES
    THEN pass1_item(st, head, IF Len(parts) > 1 THEN parts[2] ELSE None)
    ELSE pass1_raise(st, AsmError(head))

pass1_parts(st, parts) ==
    IF parts = <<>> THEN pass1_raise(st, IndexError)
    ELSE pass1_head(st, parts, upper(parts[1]))

\* pass1_label that counts the declaration as a slot
pass1_label_counted(st, name) ==
    Pass1(dict_set(st.labels, name, st.pc + 1), st.pc, st.items, NoError)

\* a label declaration binds the label to the next index
pass1_label(st, name) ==
    Pass1(dict_set(st.labels, name, st.pc), st.pc, st.items, NoError)

\* one iteration of the loop of pass 1
pass1_line(st, line) ==
    IF endswith(line, <<":">>)
    THEN pass1_label(st, strip(SubSeq(line, 1, Len(line) - 1)))
    ELSE pass1_parts(st, split_words(replace(line, ",", " ")))

RECURSIVE pass1(_, _)
pass1(st, cleaned) ==
    IF cleaned = <<>> \/ st.err # NoError THEN st
    ELSE pass1(pass1_line(st, Head(cleaned)), Tail(cleaned))

parse_addr(labels, tok) ==
    IF tok = None THEN Parsed(0)
    ELSE IF tok \in DOMAIN labels THEN Parsed(labels[tok])
    ELSE int_base0(tok)

\* (opcode & 0xF) << 4 | addr & 0xF, with the operand left unmasked
encode_unmasked(opcode, addr) == (opcode % 16) * 16 + addr

\* (opcode & 0xF) << 4 | addr & 0xF: the two fields share no bit
encode(opcode, addr) == (opcode % 16) * 16 + (addr % 16)

masked(r) == [r EXCEPT !.val = @ % 256]

with_opcode(opcode, r) == [r EXCEPT !.val = encode(opcode, @)]

\* the byte of one item, where its operand can be read
item_byte(labels, mnemonic, opnd) ==
    IF mnemonic = BYTE THEN masked(int_base0(opnd))
    ELSE IF mnemonic \in {OUT, HLT} THEN Parsed(OPCODES[mnemonic] * 16)
    ELSE with_opcode(OPCODES[mnemonic], parse_addr(labels, opnd))

\* the locals of pass 2, and the exception that ended it
Pass2(out, err) == [out |-> out, err |-> err]

pass2_emit(st, r, opnd) ==
    IF r.ok THEN Pass2(Append(st.out, r.val), NoError)
    ELSE Pass2(st.out, ValueError(opnd))

RECURSIVE pass2(_, _, _)
pass2(st, labels, items) ==
    IF items = <<>> \/ st.err # NoError THEN st
    ELSE pass2(pass2_emit(st, item_byte(labels, Head(items)[1], Head(items)[2]),
                          Head(items)[2]),
               labels, Tail(items))

\* an assemble() call: what it was given, whether it returned or raised,
\* and the locals it leaves
Assembled(lines, cleaned, p1, p2) ==
    [ status |-> IF p2.err = NoError THEN "returned" ELSE "raised",
      lines |-> lines,
      cleaned |-> cleaned,
      labels |-> p1.labels,
      items |-> p1.items,
      err |-> p2.err,
      ret |-> IF p2.err = NoError THEN p2.out ELSE None ]

assemble_pass2(lines, cleaned, p1) ==
    Assembled(lines, cleaned, p1,
              IF p1.err # NoError THEN Pass2(<<>>, p1.err)
              ELSE pass2(Pass2(<<>>, NoError), p1.labels, p1.items))

assemble_pass1(lines, cleaned) ==
    assemble_pass2(lines, cleaned,
                   pass1(Pass1(EmptyDict, 0, <<>>, NoError), cleaned))

assemble(lines) == assemble_pass1(lines, cleaned_lines(lines))

---------------------------------------------------------------------------
(* The assembler at work: one program is assembled; what assemble() returns
   is stored into a fresh CPU from address 0, as demo_program_sta stores
   it, and the CPU steps and runs. *)

\* lines of the programs assembled in SpecAsm
MaxAsmLines == 3

\* the program of demo_program_sta: each label on the line of its directive
DemoProgram ==
    << <<" ", " ", " ", " ", " ", " ", " ", " ", "L", "D", "A", " ", "a">>,
       <<" ", " ", " ", " ", " ", " ", " ", " ", "A", "D", "D", " ", "b">>,
       <<" ", " ", " ", " ", " ", " ", " ", " ", "S", "T", "A", " ", "c">>,
       <<" ", " ", " ", " ", " ", " ", " ", " ", "L", "D", "A", " ", "c">>,
       <<" ", " ", " ", " ", " ", " ", " ", " ", "O", "U", "T">>,
       <<" ", " ", " ", " ", " ", " ", " ", " ", "H", "L", "T">>,
       <<"a", ":", " ", " ", " ", " ", " ", " ", ".", "b", "y", "t", "e", " ", "5">>,
       <<"b", ":", " ", " ", " ", " ", " ", " ", ".", "b", "y", "t", "e", " ", "7">>,
       <<"c", ":", " ", " ", " ", " ", " ", " ", ".", "b", "y", "t", "e", " ", "0">> >>

\* the same program with each label on a line of its own
DemoProgramSplit ==
    << <<" ", " ", " ", " ", " ", " ", " ", " ", "L", "D", "A", " ", "a">>,
       <<" ", " ", " ", " ", " ", " ", " ", " ", "A", "D", "D", " ", "b">>,
       <<" ", " ", " ", " ", " ", " ", " ", " ", "S", "T", "A", " ", "c">>,
       <<" ", " ", " ", " ", " ", " ", " ", " ", "L", "D", "A", " ", "c">>,
       <<" ", " ", " ", " ", " ", " ", " ", " ", "O", "U", "T">>,
       <<" ", " ", " ", " ", " ", " ", " ", " ", "H", "L", "T">>,
       <<"a", ":">>,
       <<" ", " ", " ", " ", " ", " ", " ", " ", ".", "b", "y", "t", "e", " ", "5">>,
       <<"b", ":">>,
       <<" ", " ", " ", " ", " ", " ", " ", " ", ".", "b", "y", "t", "e", " ", "7">>,
       <<"c", ":">>,
       <<" ", " ", " ", " ", " ", " ", " ", " ", ".", "b", "y", "t", "e", " ", "0">> >>

\* lines with and without comments, labels declared and used, an unknown
\* mnemonic, an undeclared label and a directive without its operand
AsmLines ==
    { <<" ", " ", "L", "D", "A", " ", "x", " ", ";", " ", "l", "o", "a", "d">>,
      <<"x", ":">>,
      <<"a", "d", "d", " ", "y">>,
      <<"y", ":">>,
      <<".", "b", "y", "t", "e", " ", "3", "0", "0">>,
      <<"O", "U", "T">>,
      <<"N", "O", "P", " ", "1">>,
      <<"S", "T", "A", " ", "f", "o", "o">>,
      <<";", " ", "n", "o", "t", "e">>,
      <<"x", ":", " ", ".", "b", "y", "t", "e", " ", "5">>,
      <<".", "B", "Y", "T", "E">>,
      <<"S", "U", "B", ",", "0", "x", "1", "F">>,
      <<"H", "L", "T">> }

\* operand texts: literals of every base int(tok, 0) reads, in and out of
\* the ranges 0..15 and 0..255, and texts that are no literal
OperandTokens ==
    { <<"0">>,
      <<"5">>,
      <<"1", "5">>,
      <<"1", "6">>,
      <<"2", "5", "5">>,
      <<"2", "5", "6">>,
      <<"-", "1">>,
      <<"-", "1", "7">>,
      <<"0", "x", "1", "F">>,
      <<"0", "b", "1", "0", "1">>,
      <<"0", "o", "1", "7">>,
      <<"+", "3">>,
      <<"1", "_", "0">>,
      <<"0", "0">>,
      <<"0", "1", "0">>,
      <<"#", "5">>,
      <<"z", "z">> }

OperandHeads == Mnemonics \cup {<<".", "b", "y", "t", "e">>, <<"l", "d", "a">>}

\* every head followed by every operand text, as a program of one line
OperandPrograms ==
    {<<head \o <<" ">> \o tok>> : head \in OperandHeads, tok \in OperandTokens}

AsmInputs ==
    SeqsUpTo(AsmLines, MaxAsmLines) \cup OperandPrograms \cup {DemoProgramSplit}

\* the CPU a loop of stores leaves, and what the loop raised
Stored(c, err) == [c |-> c, err |-> err]

\* the loop of demo_program_sta that stores the code from address 0: a
\* list longer than the memory fills the 16 cells and raises at the 17th
store_code(c, code) ==
    Stored([c EXCEPT !.memory =
               [i \in DOMAIN @ |->
                   IF i < Len(code) THEN u8(code[i + 1]) ELSE @[i]]],
           IF Len(code) > 16 THEN IndexErrorOnStore ELSE NoError)

\* the f-string demo_program_sta appends to the trace
FinalLine(c) ==
    [ A |-> Hex(c.A, 2), OUT |-> Hex(c.OUT, 2), halted |-> c.halted ]

\* trace.append(...) and return trace, o being what cpu.run() returned
demo_return(o) == [o EXCEPT !.ret = Append(@, FinalLine(o.c))]

\* demo_program_sta from its cpu.run() call on: a raising run() ends the
\* demo with its exception and no trace
demo_trace(o) == IF o.raised THEN o ELSE demo_return(o)

\* demo_program_sta once the code is stored, s being what the storing
\* loop left: its exception ends the demo before run() is called
demo_stored(s) ==
    IF s.err # NoError
    THEN Outcome(Ctx(s.c), TRUE, s.err, <<>>, <<>>, 0)
    ELSE demo_trace(run(Ctx(s.c), 1000))

\* demo_program_sta after its assemble() call: the exception passed on, or
\* a fresh CPU loaded and run
demo_run(c, a) ==
    IF a.status = "raised"
    THEN Outcome(Ctx(c), TRUE, a.err, <<>>, <<>>, 0)
    ELSE demo_stored(store_code(NewSAP1(TRUE, FALSE), a.ret))

\* the CPU as SAP1() constructs it, and no call made yet
InitFresh ==
    /\ Init
    /\ cpu.trace_instructions
    /\ ~cpu.trace_microsteps

Assemble ==
    /\ asm.status = "idle"
    /\ \E lines \in AsmInputs : asm' = assemble(lines)
    /\ UNCHANGED <<cpu, last, loads, resets, fetches, toy, vm, twin>>

\* demo_program_sta(); the CPU it makes replaces the one at hand
Demo ==
    /\ asm.status = "idle"
    /\ asm' = assemble(DemoProgram)
    /\ LET o == demo_run(cpu, assemble(DemoProgram))
       IN  /\ cpu' = o.c
           /\ last' = Call("demo_program_sta", <<>>, cpu, o)
           /\ fetches' = fetches + Len(o.fetched)
    /\ UNCHANGED <<loads, resets, toy, vm, twin>>

\* what assemble() returned goes into a fresh CPU; a storing loop that
\* raised leaves no CPU to step
LoadAssembled ==
    /\ asm.status = "returned"
    /\ loads = 0
    /\ LET s == store_code(NewSAP1(TRUE, FALSE), asm.ret)
       IN  /\ cpu' = s.c
           /\ last' = Call("store_code", asm.ret, cpu,
                           IF s.err = NoError THEN Quiet(s.c)
                           ELSE Outcome(Ctx(s.c), TRUE, s.err, <<>>, <<>>, 0))
           /\ loads' = IF s.err = NoError THEN loads + 1 ELSE loads
    /\ UNCHANGED <<resets, fetches, tools, twin>>

StepLoaded == loads = 1 /\ StepWithin(MaxFetches)

RunLoaded == loads = 1 /\ RunWithin(MaxFetches)

NextAsm == Assemble \/ Demo \/ LoadAssembled \/ StepLoaded \/ RunLoaded

SpecAsm == InitFresh /\ [][NextAsm]_vars

---------------------------------------------------------------------------
(* Properties of the assembler *)

(* C11: demo_program_sta's program, whose labels stand on the lines of
   their .byte directives, assembles; and with the bytes stored into a
   fresh CPU from address 0 and the CPU run, the demo ends with halted set
   and OUT = 12. *)
C11_DemoRoundTrip ==
    last.op = "demo_program_sta" =>
        /\ ~last.raised
        /\ asm.status = "returned"
        /\ cpu.halted
        /\ cpu.OUT = 12

\* a cleaned line that declares a label, and the label it declares
IsLabelLine(line) == endswith(line, <<":">>)
DeclaredLabel(line) == strip(SubSeq(line, 1, Len(line) - 1))

\* the words of a cleaned line that declares no label
LineParts(line) == split_words(replace(line, ",", " "))

\* the number of lines among the first i cleaned lines that declare no label
Slots(cl, i) == Cardinality({j \in 1..i : ~IsLabelLine(cl[j])})

\* the labels as pass 1 has them after the first i cleaned lines
LabelsAfter(cl, i) ==
    pass1(Pass1(EmptyDict, 0, <<>>, NoError), SubSeq(cl, 1, i)).labels

\* line i of cl uses a label as the operand of a memory-reference mnemonic
UsesLabel(cl, i, name) ==
    /\ ~IsLabelLine(cl[i])
    /\ upper(LineParts(cl[i])[1]) \in {LDA, ADD, SUB, STA}
    /\ Len(LineParts(cl[i])) > 1
    /\ LineParts(cl[i])[2] = name

(* C12: an accepted program yields one byte for each cleaned line that is
   not a label declaration, in line order; a label declaration binds the
   label to the index of the next byte and takes no slot; and an operand
   that names a label resolves to the label's index, whether the label is
   declared before or after the line that uses it. *)
C12_Layout ==
    asm.status = "returned" =>
        LET cl == asm.cleaned
        IN  /\ Len(asm.ret) = Slots(cl, Len(cl))
            /\ Len(asm.items) = Len(asm.ret)
            /\ \A i \in 1..Len(cl) :
                 IF IsLabelLine(cl[i])
                 THEN /\ Slots(cl, i) = Slots(cl, i - 1)
                      /\ LabelsAfter(cl, i)[DeclaredLabel(cl[i])] = Slots(cl, i)
                      /\ (\A j \in (i + 1)..Len(cl) :
                             IsLabelLine(cl[j]) =>
                                 DeclaredLabel(cl[j]) # DeclaredLabel(cl[i]))
                          => asm.labels[DeclaredLabel(cl[i])] = Slots(cl, i)
                 ELSE /\ Slots(cl, i) = Slots(cl, i - 1) + 1
                      /\ asm.items[Slots(cl, i)][1] = upper(LineParts(cl[i])[1])
                      /\ upper(LineParts(cl[i])[1]) \in Mnemonics =>
                            asm.ret[Slots(cl, i)] \div 16
                                = OPCODES[upper(LineParts(cl[i])[1])]
                      /\ upper(LineParts(cl[i])[1]) = BYTE =>
                            asm.ret[Slots(cl, i)]
                                = int_base0(LineParts(cl[i])[2]).val % 256
                      /\ \A name \in DOMAIN asm.labels :
                            UsesLabel(cl, i, name) =>
                                asm.ret[Slots(cl, i)] % 16 = asm.labels[name] % 16

\* an accepted program that uses one label before and after the line that
\* declares it, the label being bound to index 1
C12_Witness ==
    /\ asm.status = "returned"
    /\ Len(asm.cleaned) = 3
    /\ IsLabelLine(asm.cleaned[2])
    /\ asm.labels[DeclaredLabel(asm.cleaned[2])] = 1
    /\ UsesLabel(asm.cleaned, 1, DeclaredLabel(asm.cleaned[2]))
    /\ UsesLabel(asm.cleaned, 3, DeclaredLabel(asm.cleaned[2]))
    /\ asm.ret[1] % 16 = 1
    /\ asm.ret[2] % 16 = 1

\* item k of the assembled program has a memory-reference mnemonic and an
\* operand that is no label
LiteralOperand(k) ==
    /\ asm.items[k][1] \in {LDA, ADD, SUB, STA}
    /\ asm.items[k][2] # None
    /\ asm.items[k][2] \notin DOMAIN asm.labels

\* the first step() of the CPU the assembled program was stored into
FirstStep ==
    /\ asm.status = "returned"
    /\ asm.ret # <<>>
    /\ loads = 1
    /\ last.op = "step"
    /\ fetches = 1

(* C13: a memory-reference mnemonic m with an integer operand n assembles
   to OPCODES[m] * 16 + (n mod 16), which the CPU decodes to the opcode
   OPCODES[m] and the address n mod 16; OUT and HLT assemble to 0xE0 and
   0xF0 whatever operand follows them; .BYTE v assembles to v mod 256; and
   every byte of an assembled program is in 0..255. *)
C13_EncodeDecode ==
    asm.status = "returned" =>
        /\ \A k \in 1..Len(asm.items) :
             /\ asm.ret[k] \in 0..255
             /\ LiteralOperand(k) =>
                   /\ int_base0(asm.items[k][2]).ok
                   /\ asm.ret[k] = OPCODES[asm.items[k][1]] * 16
                                     + (int_base0(asm.items[k][2]).val % 16)
             /\ asm.items[k][1] = OUT => asm.ret[k] = 224
             /\ asm.items[k][1] = HLT => asm.ret[k] = 240
             /\ asm.items[k][1] = BYTE =>
                   asm.ret[k] = int_base0(asm.items[k][2]).val % 256
        /\ FirstStep /\ LiteralOperand(1) =>
             /\ ~last.raised
             /\ cpu.IR = asm.ret[1]
             /\ decode_opcode(cpu) = OPCODES[asm.items[1][1]]
             /\ decode_addr(cpu) = int_base0(asm.items[1][2]).val % 16

\* "STA -17" has assembled to 0x4F, and the CPU has decoded it as STA F
C13_Witness ==
    /\ FirstStep
    /\ asm.items = << <<STA, <<"-", "1", "7">>>> >>
    /\ asm.ret = <<79>>
    /\ cpu.IR = 79
    /\ decode_opcode(cpu) = 4
    /\ decode_addr(cpu) = 15
    /\ last.ret[1].msg = <<"STA", <<"F">>>>

\* cleaned line i starts with a word that, upper-cased, is neither .BYTE
\* nor a mnemonic
UnknownHead(cl, i) ==
    /\ ~IsLabelLine(cl[i])
    /\ LineParts(cl[i]) # <<>>
    /\ upper(LineParts(cl[i])[1]) \notin Mnemonics \cup {BYTE}

\* cleaned line i has no word at all, or is a .BYTE without its operand
MissingWord(cl, i) ==
    /\ ~IsLabelLine(cl[i])
    /\ \/ LineParts(cl[i]) = <<>>
       \/ upper(LineParts(cl[i])[1]) = BYTE /\ Len(LineParts(cl[i])) < 2

(* C14: a program with a line, not a label declaration, whose first word
   upper-cased is neither .BYTE nor a mnemonic is rejected: assemble()
   raises AsmError naming that word and returns no bytes, whatever valid
   lines stand before or after it. *)
C14_UnknownMnemonic ==
    asm.status # "idle" =>
        \A i \in 1..Len(asm.cleaned) :
            /\ UnknownHead(asm.cleaned, i)
            /\ \A j \in 1..(i - 1) :
                   ~UnknownHead(asm.cleaned, j) /\ ~MissingWord(asm.cleaned, j)
            => /\ asm.status = "raised"
               /\ asm.err = AsmError(upper(LineParts(asm.cleaned[i])[1]))
               /\ asm.ret = None

\* "NOP 1" between two lines that assemble: AsmError names NOP
C14_Witness ==
    /\ asm.status = "raised"
    /\ Len(asm.cleaned) = 3
    /\ asm.cleaned[2] = <<"N", "O", "P", " ", "1">>
    /\ ~UnknownHead(asm.cleaned, 1) /\ ~MissingWord(asm.cleaned, 1)
    /\ ~UnknownHead(asm.cleaned, 3) /\ ~MissingWord(asm.cleaned, 3)
    /\ asm.err.class = "AsmError"
    /\ asm.err.about = <<"N", "O", "P">>
    /\ asm.ret = None

\* item k has an operand that is neither a declared label nor a literal
\* that int(tok, 0) reads
UnreadableOperand(k) ==
    /\ asm.items[k][1] \in {LDA, ADD, SUB, STA, BYTE}
    /\ asm.items[k][2] # None
    /\ asm.items[k][2] \notin DOMAIN asm.labels
    /\ ~int_base0(asm.items[k][2]).ok

\* pass 1 has taken every cleaned line
Pass1Accepts ==
    \A i \in 1..Len(asm.cleaned) :
        ~UnknownHead(asm.cleaned, i) /\ ~MissingWord(asm.cleaned, i)

(* C15: a program in which a memory-reference mnemonic or .BYTE has an
   operand that is neither a declared label nor a parseable integer is
   rejected with the assembler's own error, AsmError, the one raised for an
   unknown mnemonic, and with no other kind of failure. *)
C15_BadOperandIsAsmError ==
    /\ asm.status # "idle"
    /\ Pass1Accepts
    /\ \E k \in 1..Len(asm.items) : UnreadableOperand(k)
    => /\ asm.status = "raised"
       /\ asm.err.class = "AsmError"

---------------------------------------------------------------------------
(* Toy compiler: compile_toy() of src/sap1_playground.py.  The locals of a
   call are the fields of a record; one iteration of its loop handles one
   statement. *)

\* the first free memory slot
mem_ptr_start == 14

\* what variables[name] raises on a name that was never assigned
KeyError(name) == Error("KeyError", "", name)

\* what the unpacking of a split into anything but two parts raises
UnpackError == Error("ValueError", "values to unpack (expected 2)", <<>>)

\* [p.strip() for p in s.split(ch)]
split_stripped(s, ch) ==
    [i \in 1..Len(split(s, ch)) |-> strip(split(s, ch)[i])]

\* [line.strip() for line in source.split(";") if line.strip()]
statements(source) ==
    SelectSeq(split_stripped(source, ";"), LAMBDA l : l # <<>>)

\* the locals at the start of the loop
compile_start(source) ==
    [ status |-> "compiling",
      source |-> source,
      lines |-> statements(source),
      done |-> 0,
      assembly |-> <<>>,
      variables |-> EmptyDict,
      mem_ptr |-> mem_ptr_start,
      err |-> NoError,
      ret |-> None ]

toy_raise(t, err) == [t EXCEPT !.status = "raised", !.err = err]

toy_emit(t, text) == [t EXCEPT !.assembly = Append(@, text)]

indented(mnemonic, operand) ==
    <<" ", " ", " ", " ">> \o mnemonic \o <<" ">> \o operand

\* print var
compile_print(t, words) ==
    IF Len(words) < 2 THEN toy_raise(t, IndexError)
    ELSE IF words[2] \notin DOMAIN t.variables
    THEN toy_raise(t, KeyError(words[2]))
    ELSE toy_emit(toy_emit(t, indented(LDA, str(t.variables[words[2]]))),
                  <<" ", " ", " ", " ">> \o OUT)

\* the target is bound to the free slot, the accumulator is stored in the
\* slot, and the pointer keeps its place
toy_store_no_advance(t, left) ==
    [toy_emit(t, indented(STA, str(t.mem_ptr)))
        EXCEPT !.variables = dict_set(@, left, t.mem_ptr)]

\* the target is bound to the free slot, the accumulator is stored in the
\* slot, and the pointer moves down
toy_store(t, left) ==
    [toy_emit(t, indented(STA, str(t.mem_ptr)))
        EXCEPT !.variables = dict_set(@, left, t.mem_ptr),
               !.mem_ptr = @ - 1]

\* left = a + b
compile_add(t, left, ab) ==
    IF Len(ab) # 2 THEN toy_raise(t, UnpackError)
    ELSE IF ab[1] \notin DOMAIN t.variables THEN toy_raise(t, KeyError(ab[1]))
    ELSE IF ab[2] \notin DOMAIN t.variables THEN toy_raise(t, KeyError(ab[2]))
    ELSE toy_store(toy_emit(toy_emit(t, indented(LDA, str(t.variables[ab[1]]))),
                            indented(ADD, str(t.variables[ab[2]]))),
                   left)

\* left = right with a right that is unknown let through as slot 0
compile_set_lenient(t, left, right) ==
    IF isdigit(right)
    THEN toy_store(toy_emit(t, indented(LDA, <<"#">> \o right)), left)
    ELSE IF right \notin DOMAIN t.variables
    THEN [t EXCEPT !.variables = dict_set(@, left, 0)]
    ELSE [t EXCEPT !.variables = dict_set(@, left, t.variables[right])]

\* left = right, for a literal or a variable
compile_set(t, left, right) ==
    IF isdigit(right)
    THEN toy_store(toy_emit(t, indented(LDA, <<"#">> \o right)), left)
    ELSE IF right \notin DOMAIN t.variables
    THEN toy_raise(t, KeyError(right))
    ELSE [t EXCEPT !.variables = dict_set(@, left, t.variables[right])]

compile_assign(t, parts) ==
    IF Len(parts) # 2 THEN toy_raise(t, UnpackError)
    ELSE IF "+" \in Chars(parts[2])
    THEN compile_add(t, parts[1], split_stripped(parts[2], "+"))
    ELSE compile_set(t, parts[1], parts[2])

\* the body of the loop
compile_statement(t, line) ==
    IF startswith(line, <<"p", "r", "i", "n", "t">>)
    THEN compile_print(t, split_words(line))
    ELSE IF "=" \in Chars(line)
    THEN compile_assign(t, split_stripped(line, "="))
    ELSE t

\* one iteration: the next statement handled
compile_next(t) ==
    [compile_statement(t, Head(t.lines))
        EXCEPT !.lines = Tail(@), !.done = @ + 1]

\* after the loop: the final HLT, and the lines joined
compile_return(t) ==
    [t EXCEPT !.status = "returned",
              !.assembly = Append(@, <<" ", " ", " ", " ">> \o HLT),
              !.ret = join(<<"\n">>, Append(t.assembly, <<" ", " ", " ", " ">> \o HLT))]

RECURSIVE compile_loop(_)
compile_loop(t) ==
    IF t.status = "raised" THEN t
    ELSE IF t.lines = <<>> THEN compile_return(t)
    ELSE compile_loop(compile_next(t))

compile_toy(source) == compile_loop(compile_start(source))

---------------------------------------------------------------------------
(* Interpreter of the playground: run() of src/sap1_playground.py, which
   parses the assembly text into a list of instructions and executes it on
   a memory of 16 cells of its own. *)

\* the locals of the parse loop, and the exception that ended it
Parse(code, err) == [code |-> code, err |-> err]

parse_emit(p, instr, r, tok) ==
    IF r.ok THEN Parse(Append(p.code, <<instr, r.val>>), NoError)
    ELSE Parse(p.code, Error("ValueError",
                             "invalid literal for int() with base 10: ", tok))

\* LDA #n or LDA n
parse_lda(p, opnd) ==
    IF startswith(opnd, <<"#">>)
    THEN parse_emit(p, "LDA_IMM", int_base10(Tail(opnd)), Tail(opnd))
    ELSE parse_emit(p, "LDA", int_base10(opnd), opnd)

\* a line with an operand, where the operand is there
parse_operand(p, parts) ==
    IF Len(parts) < 2 THEN Parse(p.code, IndexError)
    ELSE IF parts[1] = LDA THEN parse_lda(p, parts[2])
    ELSE IF parts[1] = STA THEN parse_emit(p, "STA", int_base10(parts[2]), parts[2])
    ELSE parse_emit(p, "ADD", int_base10(parts[2]), parts[2])

\* the if/elif chain on parts[0]; a line of any other kind is passed over
parse_parts(p, parts) ==
    IF parts[1] \in {LDA, STA, ADD} THEN parse_operand(p, parts)
    ELSE IF parts[1] = OUT THEN Parse(Append(p.code, <<"OUT", None>>), NoError)
    ELSE IF parts[1] = HLT THEN Parse(Append(p.code, <<"HLT", None>>), NoError)
    ELSE p

parse_line(p, line) ==
    IF line = <<>> \/ startswith(line, <<".">>) THEN p
    ELSE parse_parts(p, split_words(line))

RECURSIVE parse_lines(_, _)
parse_lines(p, lines) ==
    IF lines = <<>> \/ p.err # NoError THEN p
    ELSE parse_lines(parse_line(p, strip(Head(lines))), Tail(lines))

\* memory[arg] is there for -16 <= arg <= 15, a negative arg counting from
\* the end of the list
cell_exists(arg) == arg \in -16..15
cell(arg) == arg % 16

\* the locals of the execution loop: pc is the index of the instruction at
\* hand, broke tells that HLT left the loop
Exec(memory, acc, pc, output, broke, err) ==
    [ memory |-> memory, acc |-> acc, pc |-> pc, output |-> output,
      broke |-> broke, err |-> err ]

\* memory[arg] outside the list: the read raises one message, the
\* assignment of STA another
exec_raise(e, instr) ==
    [e EXCEPT !.err = IF instr = "STA" THEN IndexErrorOnStore ELSE IndexError]

\* ADD with the mask forgotten
vm_add_unmasked(e, arg) ==
    [e EXCEPT !.acc = @ + e.memory[cell(arg)], !.pc = @ + 1]

\* acc = (acc + memory[arg]) & 0xFF
vm_add(e, arg) ==
    [e EXCEPT !.acc = (@ + e.memory[cell(arg)]) % 256, !.pc = @ + 1]

\* an instruction that reads or writes memory[arg]
exec_memory(e, instr, arg) ==
    IF ~cell_exists(arg) THEN exec_raise(e, instr)
    ELSE IF instr = "LDA" THEN [e EXCEPT !.acc = e.memory[cell(arg)], !.pc = @ + 1]
    ELSE IF instr = "STA" THEN [e EXCEPT !.memory[cell(arg)] = e.acc, !.pc = @ + 1]
    ELSE vm_add(e, arg)

\* one iteration of the while loop
exec_instr(e, instr, arg) ==
    IF instr \in {"LDA", "STA", "ADD"} THEN exec_memory(e, instr, arg)
    ELSE IF instr = "LDA_IMM" THEN [e EXCEPT !.acc = arg, !.pc = @ + 1]
    ELSE IF instr = "OUT" THEN [e EXCEPT !.output = Append(@, e.acc), !.pc = @ + 1]
    ELSE [e EXCEPT !.broke = TRUE]

RECURSIVE exec_loop(_, _)
exec_loop(e, code) ==
    IF e.pc >= Len(code) \/ e.broke \/ e.err # NoError THEN e
    ELSE exec_loop(exec_instr(e, code[e.pc + 1][1], code[e.pc + 1][2]), code)

\* a run() call: what it was given, whether it returned or raised, and the
\* locals it leaves
Ran(assembly, p, e) ==
    [ status |-> IF e.err = NoError THEN "returned" ELSE "raised",
      assembly |-> assembly,
      code |-> p.code,
      memory |-> e.memory,
      acc |-> e.acc,
      pc |-> e.pc,
      broke |-> e.broke,
      err |-> e.err,
      ret |-> IF e.err = NoError THEN e.output ELSE None ]

vm_exec(assembly, p) ==
    Ran(assembly, p,
        IF p.err # NoError
        THEN Exec([i \in Cells |-> 0], 0, 0, <<>>, FALSE, p.err)
        ELSE exec_loop(Exec([i \in Cells |-> 0], 0, 0, <<>>, FALSE, NoError),
                       p.code))

vm_run(assembly) ==
    vm_exec(assembly, parse_lines(Parse(<<>>, NoError), splitlines(assembly)))

---------------------------------------------------------------------------
(* The toy compiler at work: one source is compiled, statement by
   statement; the text compile_toy() returns is interpreted by the
   playground's run() and, split into lines, assembled by assemble(); what
   assemble() returns is stored into a fresh CPU, which steps and runs. *)

\* statements of the sources compiled in SpecToy, the sums aside
MaxToyStatements == 3

\* literal and copy assignments, additions, prints, a statement of no
\* known kind and a print without its variable, with and without blanks
ToyStatements ==
    { <<"a", "=", "5">>,
      <<"b", " ", "=", " ", "7">>,
      <<"c", "=", "a", "+", "b">>,
      <<"b", "=", "a">>,
      <<"p", "r", "i", "n", "t", " ", "c">>,
      <<" ", "p", "r", "i", "n", "t", " ", " ", "b">>,
      <<"a", "=", "b", "+", "a">>,
      <<"n", "o", "t", "e">>,
      <<"p", "r", "i", "n", "t">> }

\* decimal literals, below and above 255, one with leading zeros
ToyLiterals ==
    { <<"0">>,
      <<"5">>,
      <<"7">>,
      <<"1", "0", "0">>,
      <<"2", "0", "0">>,
      <<"2", "5", "5">>,
      <<"2", "5", "6">>,
      <<"0", "0", "7">> }

\* 'a=x;b=y;c=a+b;print c;'
SumSource(x, y) ==
    <<"a", "=">> \o x \o <<";", "b", "=">> \o y
        \o <<";", "c", "=", "a", "+", "b", ";", "p", "r", "i", "n", "t", " ", "c", ";">>

SumSources == {SumSource(x, y) : x \in ToyLiterals, y \in ToyLiterals}

ToyInputs ==
    {join(<<";">>, s) : s \in SeqsUpTo(ToyStatements, MaxToyStatements)}
        \cup SumSources

CompileStart ==
    /\ toy.status = "idle"
    /\ \E source \in ToyInputs : toy' = compile_start(source)
    /\ UNCHANGED <<cpu, last, loads, resets, fetches, asm, vm, twin>>

CompileStatement ==
    /\ toy.status = "compiling"
    /\ toy.lines # <<>>
    /\ toy' = compile_next(toy)
    /\ UNCHANGED <<cpu, last, loads, resets, fetches, asm, vm, twin>>

CompileReturn ==
    /\ toy.status = "compiling"
    /\ toy.lines = <<>>
    /\ toy' = compile_return(toy)
    /\ UNCHANGED <<cpu, last, loads, resets, fetches, asm, vm, twin>>

\* run(assembly) on the text compile_toy() returned
RunToy ==
    /\ toy.status = "returned"
    /\ vm.status = "idle"
    /\ vm' = vm_run(toy.ret)
    /\ UNCHANGED <<cpu, last, loads, resets, fetches, asm, toy, twin>>

\* assemble() on the lines of the text compile_toy() returned
AssembleToy ==
    /\ toy.status = "returned"
    /\ vm.status # "idle"
    /\ asm.status = "idle"
    /\ asm' = assemble(splitlines(toy.ret))
    /\ UNCHANGED <<cpu, last, loads, resets, fetches, toy, vm, twin>>

NextToy ==
    \/ CompileStart
    \/ CompileStatement
    \/ CompileReturn
    \/ RunToy
    \/ AssembleToy
    \/ LoadAssembled
    \/ StepLoaded
    \/ RunLoaded

SpecToy == InitFresh /\ [][NextToy]_vars

---------------------------------------------------------------------------
(* Properties of the toy compiler and its interpreter *)

(* C16: the text compile_toy() returns for 'a=5;b=7;c=a+b;print c;', which
   holds the lines 'LDA #5' and 'LDA #7', is accepted by assemble(); and
   with the bytes stored into a fresh CPU from address 0 and the CPU run to
   its halt, OUT is 12. *)
C16_ToyThroughCore ==
    /\ toy.status = "returned"
    /\ toy.source = SumSource(<<"5">>, <<"7">>)
    /\ asm.status # "idle"
    => /\ asm.status = "returned"
       /\ loads = 1 /\ cpu.halted => cpu.OUT = 12

\* run() has been called on what compile_toy() returned for source
Interpreted(source) ==
    /\ toy.status = "returned"
    /\ toy.source = source
    /\ vm.status # "idle"
    /\ vm.assembly = toy.ret

\* run() left its loop at a HLT that is the last instruction of the code
EndedAtFinalHLT ==
    /\ vm.broke
    /\ vm.pc = Len(vm.code) - 1
    /\ vm.code[Len(vm.code)] = <<"HLT", None>>

(* C17: for all decimal literals x and y, run() on the text compile_toy()
   returns for 'a=x;b=y;c=a+b;print c;' executes to the final HLT and
   returns exactly one output, (x + y) mod 256. *)
C17_SumMod256 ==
    \A x \in ToyLiterals, y \in ToyLiterals :
        Interpreted(SumSource(x, y)) =>
            /\ vm.status = "returned"
            /\ EndedAtFinalHLT
            /\ vm.ret = <<(int_base10(x).val + int_base10(y).val) % 256>>

\* 200 + 100 has been compiled and interpreted: the one output is 44
C17_Witness ==
    /\ Interpreted(SumSource(<<"2", "0", "0">>, <<"1", "0", "0">>))
    /\ EndedAtFinalHLT
    /\ vm.ret = <<44>>

\* the statements of the source being compiled, and the kind of each: the
\* two sides of an assignment, the operands of an addition
Stmts == statements(toy.source)

IsPrint(line) == startswith(line, <<"p", "r", "i", "n", "t">>)
IsAssignment(line) == ~IsPrint(line) /\ "=" \in Chars(line)
Sides(line) == split_stripped(line, "=")
IsAddition(line) == IsAssignment(line) /\ "+" \in Chars(Sides(line)[2])
IsLiteral(line) ==
    IsAssignment(line) /\ ~IsAddition(line) /\ isdigit(Sides(line)[2])
IsCopy(line) ==
    IsAssignment(line) /\ ~IsAddition(line) /\ ~isdigit(Sides(line)[2])
Operands(line) == split_stripped(Sides(line)[2], "+")

\* a statement with all its parts
WellFormed(line) ==
    /\ IsPrint(line) => Len(split_words(line)) >= 2
    /\ IsAssignment(line) => Len(Sides(line)) = 2
    /\ IsAddition(line) => Len(Operands(line)) = 2

\* the variables a well-formed statement reads, in the order it reads them
Reads(line) ==
    IF ~WellFormed(line) THEN <<>>
    ELSE IF IsPrint(line) THEN <<split_words(line)[2]>>
    ELSE IF IsAddition(line) THEN Operands(line)
    ELSE IF IsCopy(line) THEN <<Sides(line)[2]>>
    ELSE <<>>

\* the variables assigned by the statements before statement i
AssignedBefore(i) ==
    {Sides(Stmts[j])[1] : j \in {k \in 1..(i - 1) : IsAssignment(Stmts[k])}}

\* statement i reads a variable that no earlier statement assigned, and
\* name is the first such variable it reads
ReadsUnassigned(i, name) ==
    /\ WellFormed(Stmts[i])
    /\ \E r \in 1..Len(Reads(Stmts[i])) :
         /\ Reads(Stmts[i])[r] = name
         /\ name \notin AssignedBefore(i)
         /\ \A q \in 1..(r - 1) : Reads(Stmts[i])[q] \in AssignedBefore(i)

\* every statement before statement i is well-formed and reads assigned
\* variables only
SoundBefore(i) ==
    \A j \in 1..(i - 1) :
        /\ WellFormed(Stmts[j])
        /\ \A r \in 1..Len(Reads(Stmts[j])) :
               Reads(Stmts[j])[r] \in AssignedBefore(j)

(* C18: when a statement reads a variable that no earlier statement
   assigned, as the argument of print, as an operand of an addition or as
   the source of a copy, compile_toy() fails with the error of the variable
   lookup (Python's KeyError), which carries that variable's name, and
   returns no assembly text for any part of the program. *)
C18_UndefinedVariable ==
    toy.status \in {"returned", "raised"} =>
        \A i \in 1..Len(Stmts) :
            \A name \in {Reads(Stmts[i])[r] : r \in 1..Len(Reads(Stmts[i]))} :
                SoundBefore(i) /\ ReadsUnassigned(i, name) =>
                    /\ toy.status = "raised"
                    /\ toy.err = KeyError(name)
                    /\ toy.done = i
                    /\ toy.ret = None

\* the addition c=a+b after a=5 alone: the lines of the literal assignment
\* have been emitted, the lookup of b fails, and no text is returned
C18_Witness ==
    /\ toy.status = "raised"
    /\ toy.done = 2
    /\ IsLiteral(Stmts[1])
    /\ IsAddition(Stmts[2])
    /\ Operands(Stmts[2]) = << <<"a">>, <<"b">> >>
    /\ toy.err = KeyError(<<"b">>)
    /\ Len(toy.assembly) = 2
    /\ toy.ret = None

\* a statement that takes a fresh slot: a literal assignment or an addition
Allocating(line) == WellFormed(line) /\ (IsLiteral(line) \/ IsAddition(line))

\* the allocating statements among the first k
AllocsAmong(k) == Cardinality({j \in 1..k : Allocating(Stmts[j])})

\* the target of statement i is not assigned again by statements i+1..k
KeepsTarget(i, k) ==
    \A j \in (i + 1)..k :
        IsAssignment(Stmts[j]) => Sides(Stmts[j])[1] # Sides(Stmts[i])[1]

RECURSIVE compile_steps(_, _)
\* the locals after k iterations of the loop
compile_steps(t, k) ==
    IF k = 0 THEN t ELSE compile_steps(compile_next(t), k - 1)

\* the locals before the statement handled last
Before == compile_steps(compile_start(toy.source), toy.done - 1)

\* the lines of a text that hold HLT and nothing else
HLTLines(lines) ==
    {i \in 1..Len(lines) : strip(lines[i]) = HLT}

(* C20: during a compile_toy() call the free-slot pointer starts at 14 and
   after every prefix of statements is 14 less the number of allocating
   statements (literal assignments and additions) handled; an allocating
   statement binds its target to the pointer's value before the decrement,
   so that separately allocated variables have distinct addresses 14, 13,
   12, ...; a copy v = w binds v to the address of w, leaves the pointer
   alone and emits nothing; no binding is ever removed; and the text
   returned ends with the one HLT line it has. *)
C20_Allocation ==
    /\ toy.status \in {"compiling", "returned"} =>
         /\ toy.mem_ptr = mem_ptr_start - AllocsAmong(toy.done)
         /\ \A i \in 1..toy.done :
              Allocating(Stmts[i]) /\ KeepsTarget(i, toy.done) =>
                  /\ toy.variables[Sides(Stmts[i])[1]]
                        = mem_ptr_start - AllocsAmong(i - 1)
                  /\ \A j \in (i + 1)..toy.done :
                        Allocating(Stmts[j]) /\ KeepsTarget(j, toy.done) =>
                            toy.variables[Sides(Stmts[j])[1]]
                                # toy.variables[Sides(Stmts[i])[1]]
    /\ toy.status = "compiling" /\ toy.done > 0 =>
         /\ DOMAIN Before.variables \subseteq DOMAIN toy.variables
         /\ Allocating(Stmts[toy.done]) =>
              /\ toy.variables[Sides(Stmts[toy.done])[1]] = Before.mem_ptr
              /\ toy.mem_ptr = Before.mem_ptr - 1
         /\ IsCopy(Stmts[toy.done]) =>
              /\ toy.variables[Sides(Stmts[toy.done])[1]]
                    = Before.variables[Sides(Stmts[toy.done])[2]]
              /\ toy.mem_ptr = Before.mem_ptr
              /\ toy.assembly = Before.assembly
         /\ HLTLines(toy.assembly) = {}
    /\ toy.status = "returned" =>
         /\ toy.done = Len(Stmts)
         /\ HLTLines(splitlines(toy.ret)) = {Len(splitlines(toy.ret))}

\* a=5, the copy b=a and the addition c=a+b have been compiled: a and b
\* share slot 14, c has slot 13, slot 12 is the next free one
C20_Witness ==
    /\ toy.status = "returned"
    /\ toy.done = 3
    /\ IsLiteral(Stmts[1]) /\ IsCopy(Stmts[2]) /\ IsAddition(Stmts[3])
    /\ toy.variables[<<"a">>] = 14
    /\ toy.variables[<<"b">>] = 14
    /\ toy.variables[<<"c">>] = 13
    /\ toy.mem_ptr = 12
    /\ Len(splitlines(toy.ret)) = 6

---------------------------------------------------------------------------
(* Two CPUs: cpu and twin are constructed alike but for their trace flags,
   and every call is made on both with the same arguments. *)

\* the second CPU after a call, and what the call raised, returned and
\* printed
Twin(o) ==
    [ c |-> o.c, raised |-> o.raised, ret |-> o.ret, out |-> o.out ]

InitTwin ==
    /\ cpu \in {NewSAP1(f[1], f[2]) : f \in FlagInputs}
    /\ twin \in {Twin(Quiet(NewSAP1(f[1], f[2]))) : f \in FlagInputs}
    /\ last = Call("new", <<>>, cpu, Quiet(cpu))
    /\ loads = 0
    /\ resets = 0
    /\ fetches = 0
    /\ asm = Idle
    /\ toy = Idle
    /\ vm = Idle

TwinReset ==
    /\ resets < MaxResets
    /\ cpu' = reset(cpu)
    /\ twin' = Twin(Quiet(reset(twin.c)))
    /\ last' = Call("reset", <<>>, cpu, Quiet(cpu'))
    /\ resets' = resets + 1
    /\ UNCHANGED <<loads, fetches, tools>>

TwinLoad ==
    /\ loads < MaxLoads
    /\ \E prog \in ProgramInputs :
         /\ cpu' = load_program(cpu, prog)
         /\ twin' = Twin(Quiet(load_program(twin.c, prog)))
         /\ last' = Call("load_program", prog, cpu, Quiet(cpu'))
    /\ loads' = loads + 1
    /\ UNCHANGED <<resets, fetches, tools>>

TwinStep ==
    /\ LET o == step(Ctx(cpu))
       IN  /\ fetches + Len(o.fetched) <= MaxFetches
           /\ cpu' = o.c
           /\ last' = Call("step", <<>>, cpu, o)
           /\ fetches' = fetches + Len(o.fetched)
    /\ twin' = Twin(step(Ctx(twin.c)))
    /\ UNCHANGED <<loads, resets, tools>>

TwinRun ==
    /\ \E max_steps \in RunInputs :
         /\ LET o == run(Ctx(cpu), max_steps)
            IN  /\ fetches + Len(o.fetched) <= MaxFetches
                /\ cpu' = o.c
                /\ last' = Call("run", <<max_steps>>, cpu, o)
                /\ fetches' = fetches + Len(o.fetched)
         /\ twin' = Twin(run(Ctx(twin.c), max_steps))
    /\ UNCHANGED <<loads, resets, tools>>

NextTwin == TwinReset \/ TwinLoad \/ TwinStep \/ TwinRun

SpecTwin == InitTwin /\ [][NextTwin]_vars

(* C19: two CPUs that start with equal registers, memory and halted flag
   and differ in trace_instructions and trace_microsteps only, given the
   same reset, load_program, step and run calls, have equal A, B, OUT, IR,
   PC, MAR, halted, t_state and memory after every call. *)
C19_TracingDoesNotInterfere ==
    /\ Registers(cpu) = Registers(twin.c)
    /\ cpu.halted = twin.c.halted
    /\ cpu.memory = twin.c.memory
    /\ last.raised = twin.raised

\* the demo program has run to its halt on a CPU that traces instructions
\* and micro-steps and on one that traces nothing: the first one returned
\* trace lines and printed, the second did neither
C19_Witness ==
    /\ Flags(cpu) = <<TRUE, TRUE>>
    /\ Flags(twin.c) = <<FALSE, FALSE>>
    /\ last.op = "run"
    /\ Len(last.fetched) = 6
    /\ cpu.halted /\ twin.c.halted
    /\ cpu.OUT = 12 /\ twin.c.OUT = 12
    /\ Len(last.ret) = 6 /\ twin.ret = <<>>
    /\ last.out # <<>> /\ twin.out = <<>>

====
